---- MODULE Spec2Model ----
(***************************************************************************)
(* Client-side state management of the chat application: the session       *)
(* manager (AuthContext), the conversation/message store (ChatContext)     *)
(* and the HTTP client they share (apiClient), together with the backend   *)
(* they talk to.  Every handler of the two providers is one action; every  *)
(* `await` splits a handler into the step that sends the request and the   *)
(* step that runs when the response is delivered.                          *)
(***************************************************************************)
EXTENDS Integers, Sequences, FiniteSets, TLC

\* ------------------------------------------------------------------ bounds
MaxReq    == 5   \* HTTP requests sent before no new operation starts
MaxClock  == 0   \* largest value of the client clock (Date.now())
MaxLogins == 2   \* token pairs the backend issues in one behaviour
MaxFlight == 2   \* HTTP requests in flight at the same time
MaxLoginFlight == 1   \* login calls in flight at the same time
MaxClicks == 2   \* calls a ChatMessage makes of onDelete

\* ------------------------------------------------------------ value spaces
Null == [null |-> TRUE]

UserIds == {1, 2}
ConvIds == {1, 2}

Email(u)    == IF u = 1 THEN "a@x" ELSE "b@x"
Username(u) == IF u = 1 THEN "alice" ELSE "bob"

\* A bearer token: a JWT with the claims of a user, or a string that is
\* not a JWT (wf = FALSE).
Jwt(u, typ, expired, jti) ==
    [wf |-> TRUE, typ |-> typ, user_id |-> u, email |-> Email(u),
     username |-> Username(u), expired |-> expired, jti |-> jti]
Garbage ==
    [wf |-> FALSE, typ |-> "access", user_id |-> 0, email |-> "",
     username |-> "", expired |-> FALSE, jti |-> 0]

\* What localStorage may hold when the page is opened.
StoredPairs ==
    { [access_token |-> Null, refresh_token |-> Null],
      [access_token |-> Jwt(1, "access", FALSE, 0),
       refresh_token |-> Jwt(1, "refresh", FALSE, 0)],
      [access_token |-> Jwt(1, "access", TRUE, 0),
       refresh_token |-> Jwt(1, "refresh", FALSE, 0)],
      [access_token |-> Garbage,
       refresh_token |-> Jwt(1, "refresh", FALSE, 0)] }

\* Message text is a sequence of characters so that trim() is computed.
Contents == { <<>>, <<" ">>, <<" ", "h", " ">> }
Replies  == { <<>>, <<"w">> }

\* What the user types into the search box, and the body of a search
\* response, with or without the field search_results.
Queries       == { <<>>, <<" ">>, <<"h">> }
SearchReplies == { [response |-> <<"w">>], [search_results |-> <<"m">>] }

Credentials ==
    { [username |-> "alice", password |-> "good"],
      [username |-> "bob",   password |-> "good"],
      [username |-> "alice", password |-> "bad"] }

\* ---------------------------------------------------------- pure helpers
RECURSIVE TrimStart(_)
TrimStart(s) ==
    IF s = <<>> THEN s
    ELSE IF Head(s) = " " THEN TrimStart(Tail(s)) ELSE s

RECURSIVE TrimEnd(_)
TrimEnd(s) ==
    IF s = <<>> THEN s
    ELSE IF s[Len(s)] = " " THEN TrimEnd(SubSeq(s, 1, Len(s) - 1)) ELSE s

\* String.prototype.trim
Trim(s) == TrimEnd(TrimStart(s))

\* jwtDecode: the payload claims of a well-formed token, no expiry check;
\* throws on anything else.
jwtDecode(t) ==
    IF t.wf
    THEN [ok |-> TRUE,
          claims |-> [user_id |-> t.user_id, email |-> t.email,
                      username |-> t.username]]
    ELSE [ok |-> FALSE, claims |-> Null]

\* The path of each kind of request, as its segments.
Url(kind) ==
    CASE kind = "token"    -> <<"auth", "token">>
      [] kind = "me"       -> <<"api", "users", "me">>
      [] kind = "register" -> <<"api", "users", "register">>
      [] kind = "list"     -> <<"chat", "conversations">>
      [] kind = "create"   -> <<"chat", "conversations">>
      [] kind = "delete"   -> <<"chat", "conversations", "id">>
      [] kind = "load"     -> <<"conversations", "id">>
      [] kind = "send"     -> <<"chat">>
      [] kind = "search"   -> <<"chat">>

Includes(url, word) == \E i \in DOMAIN url : url[i] = word

\* config.url?.includes('token') || config.url?.includes('login')
IsAuthUrl(kind) == Includes(Url(kind), "token") \/ Includes(Url(kind), "login")

\* ------------------------------------------------------------------ state
VARIABLES
    storage,             \* localStorage: access_token, refresh_token
    user,                \* AuthProvider: user
    isLoading,           \* AuthProvider: isLoading
    defaultAuth,         \* api.defaults.headers.common['Authorization']
    currentConversation, \* ChatProvider: currentConversation
    isSending,           \* ChatProvider: isSending
    conversations,       \* query cache of ['conversations']: its data
    listFetched,         \* query cache of ['conversations']: it holds the
                         \* data of a fetch (dataUpdatedAt is set)
    searchQuery,         \* ChatProvider: searchQuery
    searchCache,         \* query cache of ['search', query, id]: the keys
                         \* fetched with success and their data
    net,                 \* HTTP requests in flight
    nsent,               \* number of HTTP requests sent so far
    clock,               \* Date.now()
    serverConvs,         \* backend: the conversations it stores
    issued,              \* backend: number of token pairs issued
    last,                \* the handler that ran last and what it reported
    activeDeleted,       \* id of a conversation whose delete, called while
                         \* it was active, has succeeded, with no call of
                         \* setCurrentConversation since; else 0
    chatMessage          \* a rendered ChatMessage: its props, its state and
                         \* the calls it has made of onDelete

vars == <<storage, user, isLoading, defaultAuth, currentConversation,
          isSending, conversations, listFetched, searchQuery, searchCache,
          net, nsent, clock, serverConvs, issued, last, activeDeleted,
          chatMessage>>

authVars == <<storage, user, isLoading, defaultAuth>>
searchVars == <<searchQuery, searchCache>>
listVars == <<conversations, listFetched>>
chatVars == <<currentConversation, isSending, listVars, searchVars>>
srvVars  == <<serverConvs, issued>>
LoginsInFlight == {q \in net : q.kind \in {"token", "me"}}

\* The session as login finds it.
Session == [storage |-> storage, user |-> user, defaultAuth |-> defaultAuth]

\* What a handler reports: its name, the step of it that ran ("call" up to
\* the first await, "next" between awaits, "ok" / "fail" after the last
\* response, "noop" for an early return), the content sendMessage was
\* called with, the value its promise settled with ("pending" while it
\* awaits), the toast raised, and whether a rejection was left without a
\* handler.
Report(op, step, arg, ret, toast, unhandled) ==
    [op |-> op, step |-> step, arg |-> arg, ret |-> ret, toast |-> toast,
     unhandled |-> unhandled]

\* AuthHeader without the request interceptor: only the default header.
AuthHeader_NoInterceptor(kind, store, dflt) == dflt

\* The Authorization header a request leaves with: the default header,
\* overwritten by the request interceptor.
AuthHeader(kind, store, dflt) ==
    IF ~IsAuthUrl(kind) /\ store.access_token # Null
    THEN store.access_token
    ELSE dflt

\* The id that tells a new request from the requests n still in flight.
FreeId(n) ==
    CHOOSE i \in 1..(Cardinality(n) + 1) :
        /\ \A q \in n : q.id # i
        /\ \A j \in 1..(i - 1) : \E q \in n : q.id = j

\* A request as it is put on the wire, next to the requests n.
Request(n, kind, store, dflt, ctx) ==
    [id |-> FreeId(n), kind |-> kind, auth |-> AuthHeader(kind, store, dflt),
     ctx |-> ctx, phase |-> "sent", ok |-> FALSE, data |-> Null]

\* A request ends in a response the backend has produced, or, at any time
\* before that, in a failure: a server error or no response in time.
Succeeded(r) == r.phase = "replied" /\ r.ok
Failed(r)    == r.phase = "sent"

\* A call that starts a new request runs only within the bounds; a handler
\* that continues after a response replaces the request it consumed.  The
\* fetch of the list that follows a mutation is not held back: there is
\* one for each mutation at most.
CanSend     == nsent < MaxReq /\ Cardinality(net) < MaxFlight
CanContinue == nsent < MaxReq

\* {!isLoading && children}: AuthProvider renders what is under it.
AuthProviderRenders(loading) == ~loading

\* ProtectedRoute without the test of user.
ProtectedRoute_NoUserTest(u, loading) ==
    IF loading THEN "loader" ELSE "children"

\* What ProtectedRoute returns: the loader, <Navigate to="/login">, or
\* its children, the chat layout.
ProtectedRoute(u, loading) ==
    IF loading THEN "loader"
    ELSE IF u = Null THEN "navigate" ELSE "children"

\* What PublicRoute returns: the loader, <Navigate to="/">, or its
\* children, the login or the register page.
PublicRoute(u, loading) ==
    IF loading THEN "loader"
    ELSE IF u # Null THEN "navigate" ELSE "children"

\* The consumers of the store are rendered: the chat layout under
\* ProtectedRoute.
Mounted ==
    /\ AuthProviderRenders(isLoading)
    /\ ProtectedRoute(user, isLoading) = "children"

\* The login and the register page are rendered, under PublicRoute.
PublicShown ==
    /\ AuthProviderRenders(isLoading)
    /\ PublicRoute(user, isLoading) = "children"

\* currentConversation?.id, 0 for undefined
IdOf(conv) == IF conv = Null THEN 0 ELSE conv.id

\* What the backend sends of a conversation it stores.
Conv(c) == [id |-> c.id, messages |-> c.messages]

\* The fetches of the list among the requests n.
ListFetching(n) == {q \in n : q.kind = "list"}

\* queryClient.invalidateQueries(['conversations']): the list query is
\* always observed, so it is fetched again, and a fetch still on its way
\* is dropped, with cancelRefetch.  But a fetch on its way is dropped only
\* if the query holds data already: the first fetch is kept, and the
\* invalidation starts no other.
Refetches(n) == ListFetching(n) = {} \/ listFetched

Invalidate(n, store, dflt) ==
    IF Refetches(n)
    THEN LET kept == n \ ListFetching(n)
         IN kept \cup {Request(kept, "list", store, dflt, Null)}
    ELSE n

\* The effect on [currentConversation?.id]: after a render in which the id
\* changed to a defined value, the conversation is loaded by id.
LoadEffect(n, prev, next, store, dflt) ==
    IF IdOf(next) # 0 /\ IdOf(next) # IdOf(prev)
    THEN {Request(n, "load", store, dflt, [id |-> IdOf(next)])}
    ELSE {}

\* queryKey: ['search', searchQuery, currentConversation?.id]
SearchKey(query, conv) == <<query, IdOf(conv)>>

\* enabled: !!searchQuery.trim() && !!currentConversation?.id
SearchEnabled(key) == Trim(key[1]) # <<>> /\ key[2] # 0

\* The search query observes a new key after a render in which the key
\* changed: if it is enabled for that key, the key is fetched, unless a
\* fetch of the same key is still on its way.
SearchEffect(n, prev, next, store, dflt) ==
    IF /\ next # prev
       /\ SearchEnabled(next)
       /\ ~\E q \in n : q.kind = "search" /\ q.ctx.key = next
    THEN {Request(n, "search", store, dflt,
                  [search_query |-> next[1], conversation_id |-> next[2],
                   key |-> next])}
    ELSE {}

\* The requests that follow a render in which the active conversation
\* changed from prev to next: its load, and the search under the new key.
Effects(n, prev, next, store, dflt) ==
    LET load == LoadEffect(n, prev, next, store, dflt)
    IN load \cup SearchEffect(n \cup load, SearchKey(searchQuery, prev),
                              SearchKey(searchQuery, next), store, dflt)

\* The requests new fit the bounds next to the requests n.
Room(n, new) ==
    \/ new = {}
    \/ /\ nsent + Cardinality(new) <= MaxReq
       /\ Cardinality(n) + Cardinality(new) <= MaxFlight

\* data: searchResults = [], the data cached under the observed key.
searchResults ==
    LET key == SearchKey(searchQuery, currentConversation)
    IN IF key \in DOMAIN searchCache THEN searchCache[key] ELSE <<>>

\* The requests a failed fetch r of a query is repeated with, next to the
\* requests n.  The retry option is set where the QueryClient is created,
\* outside these sources: none, as the specification has it ("reported
\* once and not automatically retried").
QueryRetry(n, r, store, dflt) == {}

InitialConvs ==
    [c \in ConvIds |->
        IF c = 1
        THEN [id |-> 1, owner |-> 1, messages |-> <<>>]
        ELSE Null]

\* A backend that stores two conversations of the first user.
InitialConvs_Two ==
    [c \in ConvIds |-> [id |-> c, owner |-> 1, messages |-> <<>>]]

\* The page as it is opened, but for the ChatMessage looked at, in front
\* of a backend that stores convs.
InitStore(convs) ==
    /\ storage \in StoredPairs
    /\ user = Null
    /\ isLoading = TRUE
    /\ defaultAuth = Null
    /\ currentConversation = Null
    /\ isSending = FALSE
    /\ conversations = <<>>
    /\ listFetched = FALSE
    /\ searchQuery = <<>>
    /\ searchCache = <<>>
    /\ net = {}
    /\ nsent = 0
    /\ clock = 0
    /\ serverConvs = convs
    /\ issued = 0
    /\ last = [op |-> "construct", step |-> "ok", arg |-> Null,
               ret |-> "void", toast |-> "none", unhandled |-> FALSE]
    /\ activeDeleted = 0

InitPage == InitStore(InitialConvs)

\* <ChatMessage message={message} ... /> as it is first rendered.
Rendered(id, role, onEdit, onDelete) ==
    [id |-> id, role |-> role, onEdit |-> onEdit, onDelete |-> onDelete,
     isHovered |-> FALSE, isEditing |-> FALSE, showActions |-> FALSE,
     deleteCalls |-> <<>>]

\* ChatInterface renders its messages without onEdit and onDelete.
Init ==
    /\ InitPage
    /\ chatMessage = Rendered(1, "user", FALSE, FALSE)

\* The page opened by a user who has two conversations.
InitTwo ==
    /\ InitStore(InitialConvs_Two)
    /\ chatMessage = Rendered(1, "user", FALSE, FALSE)

\* A ChatMessage rendered on its own, with or without either handler.
InitMessage ==
    /\ InitPage
    /\ chatMessage \in {Rendered(id, role, onEdit, onDelete) :
                           id \in {1, 2}, role \in {"user", "assistant"},
                           onEdit \in BOOLEAN, onDelete \in BOOLEAN}

\* ------------------------------------------------------- session manager
\* InitEffect that removes only the access token on a decode failure.
InitEffect_KeepsRefresh ==
    /\ isLoading
    /\ LET token   == storage.access_token
           decoded == IF token # Null THEN jwtDecode(token)
                      ELSE [ok |-> FALSE, claims |-> Null]
           store2  == IF token # Null /\ ~decoded.ok
                      THEN [storage EXCEPT !.access_token = Null]
                      ELSE storage
       IN /\ user' = IF token # Null /\ decoded.ok
                     THEN [id |-> decoded.claims.user_id,
                           email |-> decoded.claims.email,
                           username |-> decoded.claims.username]
                     ELSE user
          /\ storage' = store2
          /\ net' = net \cup {Request(net, "list", store2, defaultAuth, Null)}
    /\ isLoading' = FALSE
    /\ nsent' = nsent + 1
    /\ last' = Report("init", "ok", Null, "void", "none", FALSE)
    /\ UNCHANGED <<activeDeleted, defaultAuth, chatVars, clock, srvVars,
                   chatMessage>>

\* The mount effect of AuthProvider.  Its render mounts ChatProvider, whose
\* conversation-list query starts its first fetch.
InitEffect ==
    /\ isLoading
    /\ LET token   == storage.access_token
           decoded == IF token # Null THEN jwtDecode(token)
                      ELSE [ok |-> FALSE, claims |-> Null]
           store2  == IF token # Null /\ ~decoded.ok
                      THEN [access_token |-> Null, refresh_token |-> Null]
                      ELSE storage
       IN /\ user' = IF token # Null /\ decoded.ok
                     THEN [id |-> decoded.claims.user_id,
                           email |-> decoded.claims.email,
                           username |-> decoded.claims.username]
                     ELSE user
          /\ storage' = store2
          /\ net' = net \cup {Request(net, "list", store2, defaultAuth, Null)}
    /\ isLoading' = FALSE
    /\ nsent' = nsent + 1
    /\ last' = Report("init", "ok", Null, "void", "none", FALSE)
    /\ UNCHANGED <<activeDeleted, defaultAuth, chatVars, clock, srvVars,
                   chatMessage>>

\* login, up to its first await: the token request.  The login page, its
\* caller, is rendered by PublicRoute while user is null.
Login(username, password) ==
    /\ PublicShown
    /\ Cardinality(LoginsInFlight) < MaxLoginFlight
    /\ CanSend
    /\ net' = net \cup
          {Request(net, "token", storage, defaultAuth,
                   [username |-> username, password |-> password,
                    pre |-> Session])}
    /\ nsent' = nsent + 1
    /\ last' = Report("login", "call", Null, "pending", "none", FALSE)
    /\ UNCHANGED <<activeDeleted, authVars, chatVars, clock, srvVars,
                   chatMessage>>

\* LoginTokenOk that leaves the default header as it was.
LoginTokenOk_NoDefault(r) ==
    /\ r \in net /\ r.kind = "token" /\ Succeeded(r)
    /\ CanContinue
    /\ LET store2 == [access_token |-> r.data.access,
                      refresh_token |-> r.data.refresh]
       IN /\ storage' = store2
          /\ defaultAuth' = defaultAuth
          /\ net' = (net \ {r}) \cup
                {Request(net \ {r}, "me", store2, r.data.access,
                         [pre |-> r.ctx.pre, access |-> r.data.access,
                          refresh |-> r.data.refresh])}
    /\ nsent' = nsent + 1
    /\ last' = Report("login", "next", Null, "pending", "none", FALSE)
    /\ UNCHANGED <<activeDeleted, user, isLoading, chatVars, clock, srvVars,
                   chatMessage>>

\* login, the token request succeeded: store the tokens, set the default
\* header, request the profile.
LoginTokenOk(r) ==
    /\ r \in net /\ r.kind = "token" /\ Succeeded(r)
    /\ CanContinue
    /\ LET store2 == [access_token |-> r.data.access,
                      refresh_token |-> r.data.refresh]
       IN /\ storage' = store2
          /\ defaultAuth' = r.data.access
          /\ net' = (net \ {r}) \cup
                {Request(net \ {r}, "me", store2, r.data.access,
                         [pre |-> r.ctx.pre, access |-> r.data.access,
                          refresh |-> r.data.refresh])}
    /\ nsent' = nsent + 1
    /\ last' = Report("login", "next", Null, "pending", "none", FALSE)
    /\ UNCHANGED <<activeDeleted, user, isLoading, chatVars, clock, srvVars,
                   chatMessage>>

\* login, the profile request succeeded.
LoginProfileOk(r) ==
    /\ r \in net /\ r.kind = "me" /\ Succeeded(r)
    /\ user' = r.data
    /\ net' = net \ {r}
    /\ last' = Report("login", "ok", Null, "true", "success", FALSE)
    /\ UNCHANGED <<activeDeleted, storage, isLoading, defaultAuth, chatVars,
                   nsent, clock, srvVars, chatMessage>>

\* login, the catch block: either request failed.
LoginFail(r) ==
    /\ r \in net /\ r.kind \in {"token", "me"} /\ Failed(r)
    /\ net' = net \ {r}
    /\ last' = Report("login", "fail", Null, "false", "error", FALSE)
    /\ UNCHANGED <<activeDeleted, authVars, chatVars, nsent, clock, srvVars,
                   chatMessage>>

\* register, up to its await.
Register(username) ==
    /\ PublicShown
    /\ CanSend
    /\ net' = net \cup
          {Request(net, "register", storage, defaultAuth,
                   [username |-> username])}
    /\ nsent' = nsent + 1
    /\ last' = Report("register", "call", Null, "pending", "none", FALSE)
    /\ UNCHANGED <<activeDeleted, authVars, chatVars, clock, srvVars,
                   chatMessage>>

\* RegisterOk that signs the new account in.
RegisterOk_Authenticates(r) ==
    /\ r \in net /\ r.kind = "register" /\ Succeeded(r)
    /\ net' = net \ {r}
    /\ user' = [id |-> 0, email |-> "", username |-> r.ctx.username]
    /\ last' = Report("register", "ok", Null, "true", "success", FALSE)
    /\ UNCHANGED <<activeDeleted, storage, isLoading, defaultAuth, chatVars,
                   nsent, clock, srvVars, chatMessage>>

RegisterOk(r) ==
    /\ r \in net /\ r.kind = "register" /\ Succeeded(r)
    /\ net' = net \ {r}
    /\ last' = Report("register", "ok", Null, "true", "success", FALSE)
    /\ UNCHANGED <<activeDeleted, authVars, chatVars, nsent, clock, srvVars,
                   chatMessage>>

RegisterFail(r) ==
    /\ r \in net /\ r.kind = "register" /\ Failed(r)
    /\ net' = net \ {r}
    /\ last' = Report("register", "fail", Null, "false", "error", FALSE)
    /\ UNCHANGED <<activeDeleted, authVars, chatVars, nsent, clock, srvVars,
                   chatMessage>>

\* Logout that removes only the access token.
Logout_KeepsRefresh ==
    /\ ~isLoading
    /\ storage' = [storage EXCEPT !.access_token = Null]
    /\ user' = Null
    /\ last' = Report("logout", "ok", Null, "void", "success", FALSE)
    /\ UNCHANGED <<activeDeleted, isLoading, defaultAuth, chatVars, net, nsent,
                   clock, srvVars, chatMessage>>

\* logout, as any consumer of useAuth may call it: the consumers are
\* rendered once isLoading is false.  logout itself has no guard.
Logout ==
    /\ ~isLoading
    /\ storage' = [access_token |-> Null, refresh_token |-> Null]
    /\ user' = Null
    /\ last' = Report("logout", "ok", Null, "void", "success", FALSE)
    /\ UNCHANGED <<activeDeleted, isLoading, defaultAuth, chatVars, net, nsent,
                   clock, srvVars, chatMessage>>

\* ------------------------------------------- conversation/message store
\* setCurrentConversation and the effects of the render that follows.
\* handleSelectConversation, its only caller, passes a conversation of the
\* list.
SetCurrentConversation(conv) ==
    /\ Mounted
    /\ LET eff == Effects(net, currentConversation, conv, storage,
                          defaultAuth)
       IN /\ Room(net, eff)
          /\ net' = net \cup eff
          /\ nsent' = nsent + Cardinality(eff)
    /\ currentConversation' = conv
    /\ activeDeleted' = 0
    /\ last' = Report("setCurrentConversation", "ok", Null, "void", "none",
                     FALSE)
    /\ UNCHANGED <<authVars, searchVars, isSending, listVars, clock, srvVars,
                   chatMessage>>

\* loadConversation, the response arrived.
LoadOk(r) ==
    /\ r \in net /\ r.kind = "load" /\ Succeeded(r)
    /\ LET eff == Effects(net \ {r}, currentConversation, r.data, storage,
                          defaultAuth)
       IN /\ Room(net \ {r}, eff)
          /\ net' = (net \ {r}) \cup eff
          /\ nsent' = nsent + Cardinality(eff)
    /\ currentConversation' = r.data
    /\ last' = Report("loadConversation", "ok", Null, "void", "none", FALSE)
    /\ UNCHANGED <<activeDeleted, authVars, searchVars, isSending, listVars,
                   clock, srvVars, chatMessage>>

\* LoadFail that tries the load once more.
LoadFail_Retries(r) ==
    /\ r \in net /\ r.kind = "load" /\ Failed(r)
    /\ nsent < MaxReq
    /\ net' = (net \ {r}) \cup
          {Request(net \ {r}, "load", storage, defaultAuth, r.ctx)}
    /\ nsent' = nsent + 1
    /\ last' = Report("loadConversation", "fail", Null, "void", "error", FALSE)
    /\ UNCHANGED <<activeDeleted, authVars, chatVars, clock, srvVars,
                   chatMessage>>

\* loadConversation, the catch block.
LoadFail(r) ==
    /\ r \in net /\ r.kind = "load" /\ Failed(r)
    /\ net' = net \ {r}
    /\ last' = Report("loadConversation", "fail", Null, "void", "error", FALSE)
    /\ UNCHANGED <<activeDeleted, authVars, chatVars, nsent, clock, srvVars,
                   chatMessage>>

\* setSearchQuery as the search box calls it, and the search of the render
\* that follows.
SetSearchQuery(query) ==
    /\ Mounted
    /\ LET eff == SearchEffect(net,
                               SearchKey(searchQuery, currentConversation),
                               SearchKey(query, currentConversation),
                               storage, defaultAuth)
       IN /\ Room(net, eff)
          /\ net' = net \cup eff
          /\ nsent' = nsent + Cardinality(eff)
    /\ searchQuery' = query
    /\ last' = Report("setSearchQuery", "ok", Null, "void", "none", FALSE)
    /\ UNCHANGED <<activeDeleted, authVars, currentConversation, isSending,
                   listVars, searchCache, clock, srvVars, chatMessage>>

\* SearchOk that keeps the results in one place instead of under the key
\* they were fetched for.
SearchOk_Unkeyed(r) ==
    /\ r \in net /\ r.kind = "search" /\ Succeeded(r)
    /\ LET key  == SearchKey(searchQuery, currentConversation)
           data == IF "search_results" \in DOMAIN r.data
                   THEN r.data.search_results ELSE <<>>
       IN searchCache' = [k \in DOMAIN searchCache \cup {key} |->
                             IF k = key THEN data ELSE searchCache[k]]
    /\ net' = net \ {r}
    /\ last' = Report("searchQuery", "ok", Null, "void", "none", FALSE)
    /\ UNCHANGED <<activeDeleted, authVars, currentConversation, isSending,
                   listVars, searchQuery, nsent, clock, srvVars, chatMessage>>

\* The search query: a response is cached under the key it was fetched
\* for, data.search_results || [].
SearchOk(r) ==
    /\ r \in net /\ r.kind = "search" /\ Succeeded(r)
    /\ LET key  == r.ctx.key
           data == IF "search_results" \in DOMAIN r.data
                   THEN r.data.search_results ELSE <<>>
       IN searchCache' = [k \in DOMAIN searchCache \cup {key} |->
                             IF k = key THEN data ELSE searchCache[k]]
    /\ net' = net \ {r}
    /\ last' = Report("searchQuery", "ok", Null, "void", "none", FALSE)
    /\ UNCHANGED <<activeDeleted, authVars, currentConversation, isSending,
                   listVars, searchQuery, nsent, clock, srvVars, chatMessage>>

\* The fetch failed: the query holds the error, after the repetitions its
\* retry option asks for.
SearchFail(r) ==
    /\ r \in net /\ r.kind = "search" /\ Failed(r)
    /\ LET again == QueryRetry(net \ {r}, r, storage, defaultAuth)
       IN /\ net' = (net \ {r}) \cup again
          /\ nsent' = nsent + Cardinality(again)
    /\ last' = Report("searchQuery", "fail", Null, "void", "none", FALSE)
    /\ UNCHANGED <<activeDeleted, authVars, chatVars, clock, srvVars,
                   chatMessage>>

\* The conversation-list query: a response replaces the cached list.
ListOk(r) ==
    /\ r \in net /\ r.kind = "list" /\ Succeeded(r)
    /\ conversations' = r.data
    /\ listFetched' = TRUE
    /\ net' = net \ {r}
    /\ last' = Report("listQuery", "ok", Null, "void", "none", FALSE)
    /\ UNCHANGED <<activeDeleted, authVars, searchVars, currentConversation,
                   isSending, nsent, clock, srvVars, chatMessage>>

\* The fetch failed: the query holds the error, after the repetitions its
\* retry option asks for.
ListFail(r) ==
    /\ r \in net /\ r.kind = "list" /\ Failed(r)
    /\ LET again == QueryRetry(net \ {r}, r, storage, defaultAuth)
       IN /\ net' = (net \ {r}) \cup again
          /\ nsent' = nsent + Cardinality(again)
    /\ last' = Report("listQuery", "fail", Null, "void", "none", FALSE)
    /\ UNCHANGED <<activeDeleted, authVars, chatVars, clock, srvVars,
                   chatMessage>>

\* createNewConversation, up to its await.
CreateNewConversation ==
    /\ Mounted
    /\ CanSend
    /\ net' = net \cup {Request(net, "create", storage, defaultAuth, Null)}
    /\ nsent' = nsent + 1
    /\ last' = Report("createNewConversation", "call", Null, "pending",
                     "none", FALSE)
    /\ UNCHANGED <<activeDeleted, authVars, chatVars, clock, srvVars,
                   chatMessage>>

\* createNewConversation, the request succeeded: the list is invalidated;
\* handleNewChat, its caller, then clears the search box.
CreateOk(r) ==
    /\ r \in net /\ r.kind = "create" /\ Succeeded(r)
    /\ net' = Invalidate(net \ {r}, storage, defaultAuth)
    /\ nsent' = nsent + (IF Refetches(net \ {r}) THEN 1 ELSE 0)
    /\ searchQuery' = <<>>
    /\ last' = Report("createNewConversation", "ok", Null, "resolved", "none",
                     FALSE)
    /\ UNCHANGED <<activeDeleted, authVars, currentConversation, isSending,
                   listVars, searchCache, clock, srvVars, chatMessage>>

\* The request failed: createNewConversation rejects; handleNewChat, its
\* caller, catches the rejection and raises the toast.
CreateFail(r) ==
    /\ r \in net /\ r.kind = "create" /\ Failed(r)
    /\ net' = net \ {r}
    /\ last' = Report("createNewConversation", "fail", Null, "rejected",
                     "error", FALSE)
    /\ UNCHANGED <<activeDeleted, authVars, chatVars, nsent, clock, srvVars,
                   chatMessage>>

\* deleteConversation, up to its await, for a conversation of the list:
\* ConversationList, its caller, has a delete button on each of them.  The
\* callback closes over the currentConversation of the render it was
\* created in.
DeleteConversation(id) ==
    /\ Mounted
    /\ CanSend
    /\ net' = net \cup
          {Request(net, "delete", storage, defaultAuth,
                   [id |-> id, captured |-> IdOf(currentConversation)])}
    /\ nsent' = nsent + 1
    /\ last' = Report("deleteConversation", "call", Null, "pending",
                     "none", FALSE)
    /\ UNCHANGED <<activeDeleted, authVars, chatVars, clock, srvVars,
                   chatMessage>>

DeleteOk(r) ==
    /\ r \in net /\ r.kind = "delete" /\ Succeeded(r)
    /\ currentConversation' =
          IF r.ctx.captured = r.ctx.id THEN Null ELSE currentConversation
    /\ net' = Invalidate(net \ {r}, storage, defaultAuth)
    /\ nsent' = nsent + (IF Refetches(net \ {r}) THEN 1 ELSE 0)
    /\ activeDeleted' =
          IF r.ctx.captured = r.ctx.id THEN r.ctx.id ELSE activeDeleted
    /\ last' = Report("deleteConversation", "ok", Null, "resolved",
                     "none", FALSE)
    /\ UNCHANGED <<authVars, searchVars, isSending, listVars, clock, srvVars,
                   chatMessage>>

\* The request failed: deleteConversation rejects; handleDeleteClick, its
\* caller, has try/finally without catch.
DeleteFail(r) ==
    /\ r \in net /\ r.kind = "delete" /\ Failed(r)
    /\ net' = net \ {r}
    /\ last' = Report("deleteConversation", "fail", Null, "rejected",
                     "none", TRUE)
    /\ UNCHANGED <<activeDeleted, authVars, chatVars, nsent, clock, srvVars,
                   chatMessage>>

\* SendReturnsEarly without trim().
SendReturnsEarly_NoTrim(content) ==
    content = <<>> \/ IdOf(currentConversation) = 0

\* if (!content.trim() || !currentConversation?.id) return;
SendReturnsEarly(content) ==
    Trim(content) = <<>> \/ IdOf(currentConversation) = 0

\* sendMessage, the early return.  content is any text: the guard of the
\* store is modelled, not the one of the input box in front of it.
SendMessageNoop(content) ==
    /\ Mounted
    /\ SendReturnsEarly(content)
    /\ last' = Report("sendMessage", "noop", content, "resolved", "none",
                     FALSE)
    /\ UNCHANGED <<activeDeleted, authVars, chatVars, net, nsent, clock,
                   srvVars, chatMessage>>

\* sendMessage, up to its await.
SendMessage(content) ==
    /\ Mounted
    /\ ~SendReturnsEarly(content)
    /\ CanSend
    /\ isSending' = TRUE
    /\ net' = net \cup
          {Request(net, "send", storage, defaultAuth,
                   [content |-> Trim(content),
                    conversation_id |-> IdOf(currentConversation),
                    raw |-> content,
                    before |-> currentConversation.messages])}
    /\ nsent' = nsent + 1
    /\ last' = Report("sendMessage", "call", content, "pending", "none", FALSE)
    /\ UNCHANGED <<activeDeleted, authVars, searchVars, currentConversation,
                   listVars, clock, srvVars, chatMessage>>

\* NewMessages with the reply placed before the message it answers.
NewMessages_Swapped(content, response, t) ==
    << [id |-> t, content |-> response, role |-> "assistant"],
       [id |-> t + 1, content |-> content, role |-> "user"] >>

\* The two messages sendMessage appends, at clock value t.
NewMessages(content, response, t) ==
    << [id |-> t, content |-> content, role |-> "user"],
       [id |-> t + 1, content |-> response, role |-> "assistant"] >>

\* sendMessage, the request succeeded.
SendOk(r, t) ==
    /\ r \in net /\ r.kind = "send" /\ Succeeded(r)
    /\ t >= clock
    /\ clock' = t
    /\ currentConversation' =
          IF r.data.response # <<>> /\ currentConversation # Null
          THEN [currentConversation EXCEPT
                  !.messages = @ \o NewMessages(r.ctx.content,
                                                r.data.response, t)]
          ELSE currentConversation
    /\ net' = Invalidate(net \ {r}, storage, defaultAuth)
    /\ nsent' = nsent + (IF Refetches(net \ {r}) THEN 1 ELSE 0)
    /\ isSending' = FALSE
    /\ last' = Report("sendMessage", "ok", Null, "resolved", "none", FALSE)
    /\ UNCHANGED <<activeDeleted, authVars, searchVars, listVars, srvVars,
                   chatMessage>>

\* SendFail without the finally block.
SendFail_KeepsSending(r) ==
    /\ r \in net /\ r.kind = "send" /\ Failed(r)
    /\ net' = net \ {r}
    /\ isSending' = isSending
    /\ last' = Report("sendMessage", "fail", Null, "resolved", "error", FALSE)
    /\ UNCHANGED <<activeDeleted, authVars, searchVars, currentConversation,
                   listVars, nsent, clock, srvVars, chatMessage>>

\* sendMessage, the catch block.
SendFail(r) ==
    /\ r \in net /\ r.kind = "send" /\ Failed(r)
    /\ net' = net \ {r}
    /\ isSending' = FALSE
    /\ last' = Report("sendMessage", "fail", Null, "resolved", "error", FALSE)
    /\ UNCHANGED <<activeDeleted, authVars, searchVars, currentConversation,
                   listVars, nsent, clock, srvVars, chatMessage>>

\* ------------------------------------------------------------ ChatMessage
pageVars == <<authVars, chatVars, net, nsent, clock, srvVars, last,
              activeDeleted>>

\* The bar of message actions is rendered: isHovered || showActions, in
\* the view that is not the edit form.
ActionsShown(m) == ~m.isEditing /\ (m.isHovered \/ m.showActions)

\* The 'Edit message' and the 'Delete message' button are rendered: the
\* second is nested in {isUser && onEdit && (...)}.
EditShown(m) == ActionsShown(m) /\ m.role = "user" /\ m.onEdit
DeleteShown(m) == EditShown(m) /\ m.onDelete

\* The pointer enters or leaves the message.
MouseEnter ==
    /\ chatMessage' = [chatMessage EXCEPT !.isHovered = TRUE]
    /\ UNCHANGED pageVars

MouseLeave ==
    /\ chatMessage' = [chatMessage EXCEPT !.isHovered = FALSE]
    /\ UNCHANGED pageVars

\* The pointer leaves the bar of actions.
ActionsMouseLeave ==
    /\ ActionsShown(chatMessage)
    /\ chatMessage' = [chatMessage EXCEPT !.showActions = FALSE]
    /\ UNCHANGED pageVars

\* A click on the button labelled "actions".
ToggleActions ==
    /\ ~chatMessage.isEditing
    /\ chatMessage' = [chatMessage EXCEPT !.showActions = ~@]
    /\ UNCHANGED pageVars

\* A click on 'Edit message'.
ClickEdit ==
    /\ EditShown(chatMessage)
    /\ chatMessage' = [chatMessage EXCEPT !.isEditing = TRUE,
                                          !.showActions = FALSE]
    /\ UNCHANGED pageVars

\* handleSaveEdit and handleCancelEdit, of the edit form.
CloseEdit ==
    /\ chatMessage.isEditing
    /\ chatMessage' = [chatMessage EXCEPT !.isEditing = FALSE]
    /\ UNCHANGED pageVars

\* A click on 'Delete message': handleDelete, then setShowActions(false).
ClickDelete ==
    /\ DeleteShown(chatMessage)
    /\ Len(chatMessage.deleteCalls) < MaxClicks
    /\ chatMessage' =
          [chatMessage EXCEPT
             !.deleteCalls = IF chatMessage.onDelete
                             THEN Append(@, chatMessage.id) ELSE @,
             !.showActions = FALSE]
    /\ UNCHANGED pageVars

\* A click on 'Copy to clipboard'.
ClickCopy ==
    /\ ActionsShown(chatMessage)
    /\ chatMessage' = [chatMessage EXCEPT !.showActions = FALSE]
    /\ UNCHANGED pageVars

\* ---------------------------------------------------------------- backend
\* The user a request is authenticated as, or 0.
Bearer(r) ==
    IF r.auth # Null /\ r.auth.wf /\ r.auth.typ = "access" /\ ~r.auth.expired
    THEN r.auth.user_id
    ELSE 0

Reply(r, ok, data) == [r EXCEPT !.phase = "replied", !.ok = ok, !.data = data]

\* POST /auth/token/
ServerToken(r) ==
    /\ r \in net /\ r.phase = "sent" /\ r.kind = "token"
    /\ r.ctx.password = "good"
    /\ issued < MaxLogins
    /\ issued' = issued + 1
    /\ LET u == IF r.ctx.username = "alice" THEN 1 ELSE 2
       IN net' = (net \ {r}) \cup
              {Reply(r, TRUE,
                     [access  |-> Jwt(u, "access", FALSE, issued + 1),
                      refresh |-> Jwt(u, "refresh", FALSE, issued + 1)])}
    /\ UNCHANGED <<activeDeleted, authVars, chatVars, nsent, clock,
                   serverConvs, last, chatMessage>>

\* POST /api/users/register/: a username that is not taken is accepted.
ServerRegister(r) ==
    /\ r \in net /\ r.phase = "sent" /\ r.kind = "register"
    /\ r.ctx.username \notin {"alice", "bob"}
    /\ net' = (net \ {r}) \cup {Reply(r, TRUE, Null)}
    /\ UNCHANGED <<activeDeleted, authVars, chatVars, nsent, clock, srvVars,
                   last, chatMessage>>

\* GET /api/users/me/
ServerMe(r) ==
    /\ r \in net /\ r.phase = "sent" /\ r.kind = "me"
    /\ Bearer(r) # 0
    /\ net' = (net \ {r}) \cup
          {Reply(r, TRUE, [id |-> Bearer(r), email |-> Email(Bearer(r)),
                           username |-> Username(Bearer(r))])}
    /\ UNCHANGED <<activeDeleted, authVars, chatVars, nsent, clock, srvVars,
                   last, chatMessage>>

\* The conversation id of a request, if the backend stores it for the
\* authenticated user.
Owns(r, c) ==
    /\ Bearer(r) # 0
    /\ c \in ConvIds
    /\ serverConvs[c] # Null
    /\ serverConvs[c].owner = Bearer(r)

RECURSIVE ListOf(_, _)
ListOf(u, c) ==
    IF c > Cardinality(ConvIds) THEN <<>>
    ELSE (IF serverConvs[c] # Null /\ serverConvs[c].owner = u
          THEN <<Conv(serverConvs[c])>> ELSE <<>>) \o ListOf(u, c + 1)

\* GET /chat/conversations/
ServerList(r) ==
    /\ r \in net /\ r.phase = "sent" /\ r.kind = "list"
    /\ Bearer(r) # 0
    /\ net' = (net \ {r}) \cup {Reply(r, TRUE, ListOf(Bearer(r), 1))}
    /\ UNCHANGED <<activeDeleted, authVars, chatVars, nsent, clock, srvVars,
                   last, chatMessage>>

\* GET /conversations/{id}/
ServerLoad(r) ==
    /\ r \in net /\ r.phase = "sent" /\ r.kind = "load"
    /\ Owns(r, r.ctx.id)
    /\ net' = (net \ {r}) \cup {Reply(r, TRUE, Conv(serverConvs[r.ctx.id]))}
    /\ UNCHANGED <<activeDeleted, authVars, chatVars, nsent, clock, srvVars,
                   last, chatMessage>>

\* POST /chat/conversations/
ServerCreate(r) ==
    /\ r \in net /\ r.phase = "sent" /\ r.kind = "create"
    /\ Bearer(r) # 0
    /\ \E c \in ConvIds :
          /\ serverConvs[c] = Null
          /\ \A d \in ConvIds : serverConvs[d] = Null => c <= d
          /\ LET new == [id |-> c, owner |-> Bearer(r), messages |-> <<>>]
             IN /\ serverConvs' = [serverConvs EXCEPT ![c] = new]
                /\ net' = (net \ {r}) \cup {Reply(r, TRUE, Conv(new))}
    /\ UNCHANGED <<activeDeleted, authVars, chatVars, nsent, clock, issued,
                   last, chatMessage>>

\* DELETE /chat/conversations/{id}/
ServerDelete(r) ==
    /\ r \in net /\ r.phase = "sent" /\ r.kind = "delete"
    /\ Owns(r, r.ctx.id)
    /\ serverConvs' = [serverConvs EXCEPT ![r.ctx.id] = Null]
    /\ net' = (net \ {r}) \cup {Reply(r, TRUE, Null)}
    /\ UNCHANGED <<activeDeleted, authVars, chatVars, nsent, clock, issued,
                   last, chatMessage>>

\* POST /chat/ with content: the backend stores the user message and the
\* reply of the language model and returns the reply.
ServerSend(r, response) ==
    /\ r \in net /\ r.phase = "sent" /\ r.kind = "send"
    /\ Owns(r, r.ctx.conversation_id)
    /\ LET c == r.ctx.conversation_id
           n == Len(serverConvs[c].messages)
       IN serverConvs' = [serverConvs EXCEPT ![c].messages = @ \o
              << [id |-> 100 + n, content |-> r.ctx.content,
                  role |-> "user"],
                 [id |-> 101 + n, content |-> response,
                  role |-> "assistant"] >>]
    /\ net' = (net \ {r}) \cup {Reply(r, TRUE, [response |-> response])}
    /\ UNCHANGED <<activeDeleted, authVars, chatVars, nsent, clock, issued,
                   last, chatMessage>>

\* POST /chat/ with search_query: the matches in the conversation.
ServerSearch(r, body) ==
    /\ r \in net /\ r.phase = "sent" /\ r.kind = "search"
    /\ Owns(r, r.ctx.conversation_id)
    /\ net' = (net \ {r}) \cup {Reply(r, TRUE, body)}
    /\ UNCHANGED <<activeDeleted, authVars, chatVars, nsent, clock, srvVars,
                   last, chatMessage>>

AuthSteps ==
    \/ InitEffect
    \/ \E c \in Credentials : Login(c.username, c.password)
    \/ \E r \in net : LoginTokenOk(r)
    \/ \E r \in net : LoginProfileOk(r)
    \/ \E r \in net : LoginFail(r)
    \/ \E u \in {"alice", "carol"} : Register(u)
    \/ \E r \in net : RegisterOk(r)
    \/ \E r \in net : RegisterFail(r)
    \/ \E r \in net : ServerRegister(r)
    \/ Logout
    \/ \E r \in net : ServerToken(r)
    \/ \E r \in net : ServerMe(r)

\* Selecting a conversation, its load, and the list query: the steps every
\* use of the store goes through.
BrowseSteps ==
    \/ InitEffect
    \/ \E conv \in {conversations[i] : i \in DOMAIN conversations} :
          SetCurrentConversation(conv)
    \/ \E r \in net : LoadOk(r)
    \/ \E r \in net : LoadFail(r)
    \/ \E r \in net : ListOk(r)
    \/ \E r \in net : ListFail(r)
    \/ \E r \in net : ServerList(r)
    \/ \E r \in net : ServerLoad(r)

SearchSteps ==
    \/ \E query \in Queries : SetSearchQuery(query)
    \/ \E r \in net : SearchOk(r)
    \/ \E r \in net : SearchFail(r)
    \/ \E r \in net, body \in SearchReplies : ServerSearch(r, body)

SendSteps ==
    \/ \E content \in Contents : SendMessageNoop(content)
    \/ \E content \in Contents : SendMessage(content)
    \/ \E r \in net, t \in 0..MaxClock : SendOk(r, t)
    \/ \E r \in net : SendFail(r)
    \/ \E r \in net, response \in Replies : ServerSend(r, response)

ManageSteps ==
    \/ CreateNewConversation
    \/ \E r \in net : CreateOk(r)
    \/ \E r \in net : CreateFail(r)
    \/ \E id \in {conversations[i].id : i \in DOMAIN conversations} :
          DeleteConversation(id)
    \/ \E r \in net : DeleteOk(r)
    \/ \E r \in net : DeleteFail(r)
    \/ \E r \in net : ServerCreate(r)
    \/ \E r \in net : ServerDelete(r)

NextAuth   == AuthSteps
NextSend   == BrowseSteps \/ SendSteps
NextManage == BrowseSteps \/ ManageSteps
NextSearch == BrowseSteps \/ SearchSteps

\* The events of a ChatMessage.
NextMessage ==
    \/ MouseEnter
    \/ MouseLeave
    \/ ActionsMouseLeave
    \/ ToggleActions
    \/ ClickEdit
    \/ CloseEdit
    \/ ClickDelete
    \/ ClickCopy

Next ==
    \/ AuthSteps \/ BrowseSteps \/ SendSteps \/ ManageSteps \/ SearchSteps
    \/ NextMessage

Spec == Init /\ [][Next]_vars

\* The session manager alone; and, under the session that the mount effect
\* resolves, the store with its users sending messages, the store with
\* its users creating and deleting conversations, and the store with its
\* users searching.
SpecAuth   == Init /\ [][NextAuth]_vars
SpecSend   == Init /\ [][NextSend]_vars
SpecManage == Init /\ [][NextManage]_vars
SpecSearch == Init /\ [][NextSearch]_vars

\* The session manager with the store under it: signing in and out while
\* the list is fetched and conversations are selected.
NextSession == AuthSteps \/ BrowseSteps
SpecSession == Init /\ [][NextSession]_vars

\* A user with two conversations who switches between them while
\* messages are sent.
SpecSwitch == InitTwo /\ [][NextSend]_vars

\* A ChatMessage under the pointer of its user.
SpecMessage == InitMessage /\ [][NextMessage]_vars

\* ----------------------------------------------------------------- claims
\* The backend answers a request in this step; in every other step a
\* handler of the client runs.
ServerStep  == \E q \in net' \ net : q.phase = "replied"
HandlerStep == ~ServerStep

\* The response to request r of the given kind, or its failure, is handled
\* in this step.  (For the kinds whose requests are never dropped, which is
\* every kind but "list".)
Delivered(r, kind, ok) ==
    /\ r \in net /\ r.kind = kind
    /\ IF ok THEN Succeeded(r) ELSE Failed(r)
    /\ r \notin net'
    /\ HandlerStep

\* Role and content of each message of a sequence.
RoleContent(msgs) ==
    [i \in DOMAIN msgs |->
        [role |-> msgs[i].role, content |-> msgs[i].content]]

\* The two messages the claim expects for the send request r.
SentPair(r) ==
    << [role |-> "user", content |-> Trim(r.ctx.raw)],
       [role |-> "assistant", content |-> r.data.response] >>

\* C1 as stated: when the send request of sendMessage(c), called with an
\* active conversation, succeeds with reply r, the messages of the active
\* conversation afterwards are the messages it had when sendMessage was
\* called followed by (user, trimmed c), (assistant, r).
C1_AsStated ==
    [][\A r \in net :
          Delivered(r, "send", TRUE)
          => /\ currentConversation' # Null
             /\ RoleContent(currentConversation'.messages) =
                   RoleContent(r.ctx.before) \o SentPair(r)
      ]_vars

\* C1: when the send request of sendMessage(c), c not blank, succeeds with
\* a non-empty reply r while a conversation is active, the messages of the
\* active conversation after the response is handled are its messages just
\* before the response is handled followed by exactly two messages, (user,
\* trimmed c) then (assistant, r).
C1_SendAppendsPair ==
    [][\A r \in net :
          (/\ Delivered(r, "send", TRUE)
           /\ r.data.response # <<>>
           /\ currentConversation # Null)
          => /\ currentConversation' # Null
             /\ currentConversation'.id = currentConversation.id
             /\ RoleContent(currentConversation'.messages) =
                   RoleContent(currentConversation.messages) \o SentPair(r)
      ]_vars

\* sendMessage(" h ") has succeeded with reply "w" and the pair is the end
\* of the active conversation.
C1_Witness ==
    /\ last.op = "sendMessage" /\ last.step = "ok"
    /\ currentConversation # Null
    /\ Len(currentConversation.messages) >= 2
    /\ LET n == Len(currentConversation.messages)
       IN SubSeq(RoleContent(currentConversation.messages), n - 1, n) =
             << [role |-> "user", content |-> <<"h">>],
                [role |-> "assistant", content |-> <<"w">>] >>

\* C2: when the send request of sendMessage fails, the active conversation
\* is left as it was, isSending is false afterwards, an error toast is
\* raised, and the promise of sendMessage resolves: nothing is rejected.
C2_SendFailure ==
    [][\A r \in net :
          Delivered(r, "send", FALSE)
          => /\ currentConversation' = currentConversation
             /\ ~isSending'
             /\ last'.op = "sendMessage"
             /\ last'.toast = "error"
             /\ last'.ret = "resolved"
             /\ ~last'.unhandled
      ]_vars

C2_Witness ==
    /\ last.op = "sendMessage" /\ last.step = "fail"
    /\ last.toast = "error"
    /\ currentConversation # Null
    /\ ~isSending

\* C3: sendMessage(content) with content empty or only whitespace, or with
\* no active conversation, sends no request and changes nothing of the
\* store: active conversation and its messages, isSending, cached list.
C3_SendNoop ==
    [][(/\ last'.op = "sendMessage"
        /\ last'.step \in {"call", "noop"}
        /\ HandlerStep
        /\ Trim(last'.arg) = <<>> \/ currentConversation = Null)
       => /\ net' = net
          /\ nsent' = nsent
          /\ UNCHANGED chatVars
      ]_vars

\* sendMessage(" ") has returned with a conversation active.
C3_Witness ==
    /\ last.op = "sendMessage" /\ last.step = "noop"
    /\ last.arg = <<" ">>
    /\ currentConversation # Null

\* C4 as stated: once the delete of the conversation that was active when
\* deleteConversation was called has succeeded and no request is in flight
\* any more, the active conversation is null.
C4_AsStated ==
    (activeDeleted # 0 /\ net = {}) => currentConversation = Null

\* C5 as stated: a failed request inside login, register, sendMessage,
\* deleteConversation or createNewConversation ends in a settled result
\* and an error toast, never in a rejected promise.
C5_AsStated ==
    (/\ last.step = "fail"
     /\ last.op \in {"login", "register", "sendMessage",
                     "deleteConversation", "createNewConversation"})
    => /\ last.ret # "rejected"
       /\ ~last.unhandled
       /\ last.toast = "error"

\* C6: the mount effect decides the session by the stored access token
\* alone: a decodable token gives the user its claims name, an undecodable
\* one gives no user and removes both tokens from storage, no token gives
\* no user; in every case isLoading becomes false.
C6_InitResolves ==
    [][(HandlerStep /\ last'.op = "init")
       => LET token == storage.access_token
          IN /\ ~isLoading'
             /\ (token # Null /\ token.wf)
                   => user' = [id |-> token.user_id, email |-> token.email,
                               username |-> token.username]
             /\ (token # Null /\ ~token.wf)
                   => /\ user' = Null
                      /\ storage'.access_token = Null
                      /\ storage'.refresh_token = Null
             /\ token = Null => user' = Null
      ]_vars

C6_Witness ==
    /\ last.op = "init"
    /\ ~isLoading
    /\ user # Null
    /\ user.id = storage.access_token.user_id

\* C7 as stated: once the session is resolved, a user is set only while a
\* well-formed access token that has not expired is in storage.
C7_AsStated ==
    (~isLoading /\ user # Null)
    => /\ storage.access_token # Null
       /\ storage.access_token.wf
       /\ ~storage.access_token.expired

\* C8 as stated: when login fails, at the token request or at the profile
\* request, user, both stored tokens and the default Authorization header
\* are what they were when login was called; login returns false and
\* raises an error toast.
C8_AsStated ==
    [][\A r \in net :
          (Delivered(r, "token", FALSE) \/ Delivered(r, "me", FALSE))
          => /\ Session' = r.ctx.pre
             /\ last'.ret = "false"
             /\ last'.toast = "error"
      ]_vars

\* C9: when the token request of login succeeds, both returned tokens are
\* put in storage, the access token becomes the default Authorization
\* header and the profile request is sent carrying that token; when the
\* profile request succeeds, user becomes the fetched profile and login
\* returns true.
C9_LoginSuccess ==
    [][\A r \in net :
          /\ Delivered(r, "token", TRUE)
                => /\ storage' = [access_token |-> r.data.access,
                                  refresh_token |-> r.data.refresh]
                   /\ defaultAuth' = r.data.access
                   /\ user' = user
                   /\ \E q \in net' \ net :
                         q.kind = "me" /\ q.auth = r.data.access
          /\ Delivered(r, "me", TRUE)
                => /\ user' = r.data
                   /\ last'.op = "login"
                   /\ last'.ret = "true"
      ]_vars

\* login("bob", ...) has returned true.
C9_Witness ==
    /\ last.op = "login" /\ last.step = "ok" /\ last.ret = "true"
    /\ user # Null
    /\ user.id = 2
    /\ user.username = Username(2)
    /\ storage.access_token # Null
    /\ storage.access_token.user_id = 2
    /\ storage.access_token.typ = "access"
    /\ storage.refresh_token # Null
    /\ storage.refresh_token.typ = "refresh"
    /\ defaultAuth = storage.access_token

\* C10: logout removes both tokens from storage, sets user to null and
\* sends no request.
C10_Logout ==
    [][(HandlerStep /\ last'.op = "logout")
       => /\ storage'.access_token = Null
          /\ storage'.refresh_token = Null
          /\ user' = Null
          /\ net' = net
          /\ nsent' = nsent
      ]_vars

C10_Witness ==
    /\ last.op = "logout"
    /\ user = Null
    /\ storage.access_token = Null
    /\ storage.refresh_token = Null
    /\ defaultAuth # Null

\* C11 as stated: logout called while user is null leaves user, both
\* stored tokens and the rest of the session state as they were.
C11_AsStated ==
    [][(HandlerStep /\ last'.op = "logout" /\ user = Null)
       => UNCHANGED authVars
      ]_vars

\* C12: no step of register changes user or the stored tokens, whether
\* its request succeeds or fails; register returns true when the request
\* succeeds and false when it fails.
C12_RegisterFrame ==
    [][/\ (HandlerStep /\ last'.op = "register")
             => /\ user' = user
                /\ storage' = storage
       /\ \A r \in net :
             /\ Delivered(r, "register", TRUE) => last'.ret = "true"
             /\ Delivered(r, "register", FALSE) => last'.ret = "false"
      ]_vars

\* register("carol") has returned true and nobody is signed in.
C12_Witness ==
    /\ last.op = "register" /\ last.step = "ok" /\ last.ret = "true"
    /\ user = Null
    /\ storage.access_token = Null

\* The search box is blank or no conversation is active.
SearchOff == Trim(searchQuery) = <<>> \/ currentConversation = Null

\* C13: a search request is sent only in a step after which the search
\* query is not blank and a conversation is active, and it carries that
\* query and that conversation; and whenever the query is blank or no
\* conversation is active, the exposed search results are empty.
C13_SearchGating ==
    /\ [](SearchOff => searchResults = <<>>)
    /\ [][\A q \in net' \ net :
             (q.kind = "search" /\ q.phase = "sent")
             => /\ ~SearchOff'
                /\ q.ctx.search_query = searchQuery'
                /\ q.ctx.conversation_id = currentConversation'.id
         ]_vars

\* Results were fetched for "h" in conversation 1, and the query has been
\* cleared since.
C13_Witness ==
    /\ searchQuery = <<>>
    /\ currentConversation # Null
    /\ <<<<"h">>, currentConversation.id>> \in DOMAIN searchCache
    /\ searchCache[<<<<"h">>, currentConversation.id>>] # <<>>
    /\ searchResults = <<>>

\* C14: every request sent to a path that contains neither "token" nor
\* "login", in a step after which an access token is in storage, carries
\* that access token as its bearer.
C14_BearerAttached ==
    [][\A q \in net' \ net :
          (/\ q.phase = "sent"
           /\ ~Includes(Url(q.kind), "token")
           /\ ~Includes(Url(q.kind), "login")
           /\ storage'.access_token # Null)
          => q.auth = storage'.access_token
      ]_vars

\* A request outside the token endpoint is on its way with the stored
\* token although no default header is set.
C14_Witness ==
    \E q \in net :
        /\ q.kind \notin {"token"}
        /\ q.phase = "sent"
        /\ defaultAuth = Null
        /\ storage.access_token # Null
        /\ q.auth = storage.access_token

\* The kinds of request.
Kinds ==
    {"token", "me", "register", "list", "create", "delete", "load", "send",
     "search"}

C16_AsStated ==
    [][/\ \A r \in net :
             (\/ Delivered(r, "create", TRUE)
              \/ Delivered(r, "delete", TRUE)
              \/ Delivered(r, "send", TRUE))
             => /\ conversations' = conversations
                /\ nsent' = nsent + 1
                /\ Cardinality(ListFetching(net')) = 1
                /\ \A q \in net' : q.kind = "list" => q.phase = "sent"
       /\ conversations' # conversations
             => \E r \in net \ net' :
                   /\ r.kind = "list"
                   /\ Succeeded(r)
                   /\ conversations' = r.data
      ]_vars

\* The requests that change the collection of the backend.
Mutations == {"create", "delete", "send"}

\* C17 as stated: never are two fetches of the list on their way, so that
\* an older response cannot overwrite a newer one; and when a list response
\* is handled with no mutation and no other list fetch on its way, the
\* list held afterwards is the collection the backend holds then for the
\* user of the request.
C17_AsStated ==
    /\ [](Cardinality(ListFetching(net)) <= 1)
    /\ [][\A r \in net :
             (/\ HandlerStep
              /\ r.kind = "list" /\ Succeeded(r) /\ r \notin net'
              /\ last'.op = "listQuery" /\ last'.step = "ok"
              /\ \A q \in net' : q.kind \notin Mutations \cup {"list"})
             => conversations' = ListOf(Bearer(r), 1)
         ]_vars

\* C18 as stated: every setCurrentConversation(conv) with conv not null,
\* the conversation already active included, sends a load of conv.id; and
\* when a load succeeds, the active conversation becomes the one fetched.
C18_AsStated ==
    [][/\ (/\ HandlerStep
           /\ last'.op = "setCurrentConversation"
           /\ currentConversation' # Null)
          => /\ nsent' > nsent
             /\ \E q \in net' \ net :
                   /\ q.kind = "load"
                   /\ q.phase = "sent"
                   /\ q.ctx.id = currentConversation'.id
       /\ \A r \in net :
             Delivered(r, "load", TRUE) => currentConversation' = r.data
      ]_vars

\* s is the beginning of t.
IsPrefix(s, t) == Len(s) <= Len(t) /\ SubSeq(t, 1, Len(s)) = s

\* C19 as stated: in every step that keeps the id of the active
\* conversation, the roles and contents of its messages before the step
\* are the beginning of those after the step: no message is removed or
\* reordered.
C19_AsStated ==
    [][(/\ currentConversation # Null
        /\ currentConversation' # Null
        /\ currentConversation'.id = currentConversation.id)
       => IsPrefix(RoleContent(currentConversation.messages),
                   RoleContent(currentConversation'.messages))
      ]_vars

\* C20 as stated: the ids of the messages of the active conversation are
\* pairwise distinct, whatever the clock shows when the sends complete.
C20_AsStated ==
    currentConversation # Null
    => \A i, j \in DOMAIN currentConversation.messages :
          i # j => currentConversation.messages[i].id #
                      currentConversation.messages[j].id

\* The operations the chat layout calls, and those of the login and the
\* register page, as a step reports them.
LayoutCall ==
    \/ /\ last'.op \in {"sendMessage", "createNewConversation",
                        "deleteConversation"}
       /\ last'.step \in {"call", "noop"}
    \/ last'.op \in {"setCurrentConversation", "setSearchQuery"}
PageCall == last'.op \in {"login", "register"} /\ last'.step = "call"

\* C21: while isLoading is true nothing under AuthProvider is rendered;
\* the chat layout is rendered only with a user, and without one the
\* protected route navigates to /login; the login and the register page
\* are rendered only without a user, and with one the public route
\* navigates to /.  So every operation the chat layout calls runs with the
\* session resolved and a user, and every login or register call with the
\* session resolved and no user.
C21_RouteGating ==
    /\ [](/\ isLoading => ~Mounted /\ ~PublicShown
          /\ Mounted => user # Null
          /\ PublicShown => user = Null
          /\ (~isLoading /\ user = Null)
                => ProtectedRoute(user, isLoading) = "navigate"
          /\ (~isLoading /\ user # Null)
                => PublicRoute(user, isLoading) = "navigate")
    /\ [][/\ (LayoutCall /\ HandlerStep) => (~isLoading /\ user # Null)
          /\ (PageCall /\ HandlerStep) => (~isLoading /\ user = Null)
         ]_vars

\* A user who signed in on the login page has selected a conversation in
\* the chat layout.
C21_Witness ==
    /\ last.op = "setCurrentConversation"
    /\ ~isLoading
    /\ user # Null
    /\ issued > 0
    /\ currentConversation # Null

\* C22 as stated: a user message rendered with onDelete, with or without
\* onEdit, shows the 'Delete message' button once its actions are opened,
\* and a click on it calls onDelete once more, with the id of the message.
C22_AsStated ==
    /\ []((/\ chatMessage.role = "user"
           /\ chatMessage.onDelete
           /\ ~chatMessage.isEditing
           /\ chatMessage.showActions)
          => DeleteShown(chatMessage))
    /\ [][chatMessage'.deleteCalls # chatMessage.deleteCalls
          => chatMessage'.deleteCalls =
                Append(chatMessage.deleteCalls, chatMessage.id)
         ]_vars

\* C23 as stated: a request to a path that contains 'token' or 'login'
\* carries no Authorization header, also after an earlier login of the
\* same page.
C23_AsStated ==
    \A q \in net : IsAuthUrl(q.kind) => q.auth = Null

\* C24 as stated: with no login under way, the first request a call sends
\* after logout carries no Authorization header.
C24_AsStated ==
    [][(/\ last.op = "logout"
        /\ \A q \in net : q.kind \notin {"token", "me"}
        /\ last'.step = "call"
        /\ nsent' > nsent)
       => \A q \in net' \ net : q.auth = Null
      ]_vars

\* C25 as stated: when a send succeeds while the active conversation is
\* not the one the message was sent to, the messages of the active
\* conversation stay as they are.
C25_AsStated ==
    [][\A r \in net :
          (/\ Delivered(r, "send", TRUE)
           /\ last'.op = "sendMessage"
           /\ currentConversation # Null
           /\ currentConversation.id # r.ctx.conversation_id)
          => /\ currentConversation' # Null
             /\ currentConversation'.messages = currentConversation.messages
      ]_vars

\* C26 as stated: when a delete succeeds, the active conversation is
\* cleared if it is the deleted one at that moment, and is left as it is
\* otherwise.
C26_AsStated ==
    [][\A r \in net :
          (/\ Delivered(r, "delete", TRUE)
           /\ last'.op = "deleteConversation")
          => currentConversation' =
                IF IdOf(currentConversation) = r.ctx.id
                THEN Null
                ELSE currentConversation
      ]_vars

\* C27 as stated: the response to the load of a conversation that is not
\* the active one, or that arrives while no conversation is active, leaves
\* the active conversation as it is.
C27_AsStated ==
    [][\A r \in net :
          (/\ Delivered(r, "load", TRUE)
           /\ last'.op = "loadConversation"
           /\ r.ctx.id # IdOf(currentConversation))
          => IdOf(currentConversation') = IdOf(currentConversation)
      ]_vars

\* The sends of sendMessage that are in flight.
SendsInFlight == {q \in net : q.kind = "send"}

\* C28 as stated: isSending is true exactly while a send is in flight.
C28_AsStated ==
    isSending <=> SendsInFlight # {}

\* C29 as stated: once logout has run, no conversation is active and the
\* store holds no conversation list and no search results.
C29_AsStated ==
    last.op = "logout"
       => /\ currentConversation = Null
          /\ conversations = <<>>
          /\ searchCache = <<>>

\* C30 as stated, its first half: the conversation list is requested only
\* while a user is authenticated.
C30_AsStated ==
    [][\A q \in net' \ net :
          (q.kind = "list" /\ q.phase = "sent") => user' # Null
      ]_vars

====
